---- MODULE Spec2Model ----
(***************************************************************************)
(* A model of the feats utility library: the Switcher match chain          *)
(* (src/functions/switcher.ts), the duration value (src/functions/text.ts) *)
(* and the TextBuilder string builder of the same file, and the two React  *)
(* timer hooks useTimeout and useInterval.                                 *)
(*                                                                         *)
(* Each component has its own variables and its own specification; the     *)
(* variables of the other components stay at their initial value.          *)
(***************************************************************************)
EXTENDS Integers, Sequences, FiniteSets, TLC

VARIABLES
    \* ---- Switcher (switcher.ts) ----
    value,           \* Switcher.value: the subject
    equalityCheck,   \* Switcher.equalityCheck: which predicate the options gave
    returnedValue,   \* Switcher.returnedValue: the result slot
    sw_op,           \* the last Switcher method called
    sw_ret,          \* what the last done()/default() returned
    sw_matched,      \* history: some case call had a candidate equal to the subject
    sw_firstThen,    \* history: the thenValue of the first such case call
    sw_calls,        \* the candidates equalityCheck was invoked on by the last case call
    sw_n,            \* number of method calls made on the switcher
    sw_arg,          \* the argument of the last default() call
    sw_defaults,     \* number of default() calls made on the switcher
    sw_conds,        \* the candidates passed to the last call, if it was a case call
    sw_fix,          \* history: the value a default() call on an unmatched switcher fixed
    sw_then,         \* the thenValue of the last call, if it was a case call
    \* ---- duration (text.ts) ----
    ms,              \* the closure variable ms of the current duration instance
    d_live,          \* a duration instance has been returned to the caller
    d_op,            \* the last duration operation
    d_arg,           \* its unit or property-name argument
    d_res,           \* its outcome: a value returned or an error thrown
    d_val,           \* the numeric argument of the last duration operation
    d_ms0,           \* history: the ms the current instance had when it was returned
    d_prev,          \* history: the call that returned the current instance
    d_len,           \* history: number of calls chained to reach the current instance
    \* ---- useTimeout / useInterval (hooks) ----
    hook,            \* which hook the component mounted
    timeoutRef,      \* useTimeout: timeoutRef.current
    hostTimeouts,    \* ids the host holds from setTimeout, neither fired nor cleared
    intervalRef,     \* useInterval: intervalRef.current
    hostIntervals,   \* ids the host holds from setInterval, not cleared
    nextId,          \* the id the host hands out next
    stack,           \* handlers being executed, innermost last, with their caller
    invoked,         \* per set call: how often its handler was invoked
    unmounted,       \* the component was torn down
    h_op,            \* the last step of the hook
    latest,          \* history: the set call no set/clear/dispatch/teardown followed
    fired,           \* history: ids whose host timeout elapsed
    staleInvoked,    \* history: a handler was invoked after a later set replaced it
    sinceClear,      \* history: clear() returned and no set was called since
    tornAt,          \* history: nextId when the component was torn down
    cancelled,       \* history: the id the last clear()/teardown cancelled at the host
    \* ---- TextBuilder (text.ts) ----
    text,            \* TextBuilder.text: the buffer
    tb_prev,         \* history: the buffer before the last call
    tb_op,           \* the last TextBuilder member used
    tb_call,         \* the arguments of the last if() call
    tb_ret,          \* what the last read returned, or the error the call threw
    tb_ran,          \* the branches the last if() call applied, in order
    tb_trim,         \* the last call ran trimLines
    tb_arg,          \* the string or count argument of the last call
    tb_since,        \* history: what happened to the buffer since done()/toString()
    tb_twice,        \* the last call was a trimLines that directly followed a
                     \* trimLines which had changed the buffer
    \* Array extensions (src/utils/array-utils.ts)
    a_this,          \* the array the last method was called on
    a_op,            \* the last step: a call, a loop iteration, a return, a read
    a_size,          \* chunk: the size argument
    a_i,             \* chunk: the loop variable i
    chunks,          \* chunk: the list built so far
    a_keys,          \* groupBy: what keyFn returned for each index
    groups,          \* groupBy: the object behind the returned proxy, or the error
    a_prop,          \* the property last read from the proxy
    a_ret,           \* what the last return or read gave
    a_other,         \* intersect, difference: the argument
    a_diff           \* what difference returned for the arrays of the last intersect

swVars == <<value, equalityCheck, returnedValue, sw_op, sw_ret, sw_matched,
            sw_firstThen, sw_calls, sw_n, sw_arg, sw_defaults,
           sw_conds, sw_fix, sw_then>>

durVars == <<ms, d_live, d_op, d_arg, d_res, d_val, d_ms0, d_prev, d_len>>

hookVars == <<hook, timeoutRef, hostTimeouts, intervalRef, hostIntervals, nextId,
              stack, invoked, unmounted, h_op, latest, fired, staleInvoked,
              sinceClear, tornAt, cancelled>>

tbVars == <<text, tb_prev, tb_op, tb_call, tb_ret, tb_ran, tb_trim, tb_arg, tb_since,
            tb_twice>>

arrVars == <<a_this, a_op, a_size, a_i, chunks, a_keys, groups, a_prop, a_ret,
             a_other, a_diff>>

vars == <<swVars, durVars, hookVars, tbVars, arrVars>>

\* What a step of one component leaves alone: the other components.
SwitcherFrame == UNCHANGED <<durVars, hookVars, tbVars, arrVars>>
DurationFrame == UNCHANGED <<swVars, hookVars, tbVars, arrVars>>
HooksFrame == UNCHANGED <<swVars, durVars, tbVars, arrVars>>
TextBuilderFrame == UNCHANGED <<swVars, durVars, hookVars, arrVars>>
ArrayFrame == UNCHANGED <<swVars, durVars, hookVars, tbVars>>

(***************************************************************************)
(* JavaScript values                                                       *)
(***************************************************************************)
Undefined == "undefined"
Null == "null"

(***************************************************************************)
(* Switcher                                                                *)
(***************************************************************************)
MaxCalls == 4          \* method calls made on one switcher
MaxConds == 2          \* candidates in one list-form case

\* The subject domain TValue and the result domain TRet.  TRet is any type the
\* caller picks, so it may contain null and undefined.
TValue == {"a", "A", "b"}
TRet == {"R1", "R2", Null, Undefined}

Fold(v) == IF v = "A" THEN "a" ELSE v

\* constructor: equalityCheck ?? ((v1, v2) => v1 === v2).  "custom" is a
\* caller-supplied predicate (here: equal up to letter case).
EqualityKinds == {"strict", "custom"}
Equality(kind, v1, v2) ==
    IF kind = "strict" THEN v1 = v2 ELSE Fold(v1) = Fold(v2)

CondLists == UNION {[1..n -> TValue] : n \in 0..MaxConds}

\* A loop that tests the first candidate only
FirstHitHeadOnly(kind, subject, conds) ==
    IF conds # <<>> /\ Equality(kind, subject, conds[1]) THEN 1 ELSE 0

\* Index of the first candidate of conds the loop of case() stops at, 0 if
\* the loop runs to the end without a hit.
FirstHit(kind, subject, conds) ==
    IF \E i \in 1..Len(conds) : Equality(kind, subject, conds[i])
    THEN CHOOSE i \in 1..Len(conds) :
            /\ Equality(kind, subject, conds[i])
            /\ \A j \in 1..(i - 1) : ~Equality(kind, subject, conds[j])
    ELSE 0

\* case(): the slot after the call
CaseSlot(kind, subject, slot, conds, then) ==
    IF slot = Undefined
    THEN IF FirstHit(kind, subject, conds) # 0 THEN then ELSE slot
    ELSE slot

\* case(): the candidates the predicate was called on, in order
CaseCalls(kind, subject, slot, conds) ==
    IF slot = Undefined
    THEN IF FirstHit(kind, subject, conds) # 0
         THEN SubSeq(conds, 1, FirstHit(kind, subject, conds))
         ELSE conds
    ELSE <<>>

\* default(): this.returnedValue ??= value  (?? treats null and undefined alike)
DefaultSlot(slot, v) == IF slot = Undefined \/ slot = Null THEN v ELSE slot

SwitcherInit ==
    /\ value \in TValue
    /\ equalityCheck \in EqualityKinds
    /\ returnedValue = Undefined
    /\ sw_op = "new"
    /\ sw_ret = Undefined
    /\ sw_matched = FALSE
    /\ sw_firstThen = Undefined
    /\ sw_calls = <<>>
    /\ sw_n = 0
    /\ sw_arg = Undefined
    /\ sw_defaults = 0
    /\ sw_conds = <<>>
    /\ sw_fix = [on |-> FALSE, v |-> Undefined]
    /\ sw_then = Undefined

\* A condition argument of case(): a single candidate or a list of candidates.
CondArgs ==
    {[isArray |-> FALSE, items |-> <<c>>] : c \in TValue}
        \cup {[isArray |-> TRUE, items |-> l] : l \in CondLists}

\* Array.isArray(condition) ? condition : [condition]
Conditions(condition) == condition.items

\* case(condition, then)
Case ==
    \E condition \in CondArgs, then \in TRet :
        /\ sw_n < MaxCalls
        /\ returnedValue' =
              CaseSlot(equalityCheck, value, returnedValue, Conditions(condition), then)
        /\ sw_calls' = CaseCalls(equalityCheck, value, returnedValue, Conditions(condition))
        /\ sw_op' = "case"
        /\ sw_n' = sw_n + 1
        /\ IF ~sw_matched /\ FirstHit(equalityCheck, value, Conditions(condition)) # 0
           THEN sw_matched' = TRUE /\ sw_firstThen' = then
           ELSE UNCHANGED <<sw_matched, sw_firstThen>>
        /\ sw_conds' = Conditions(condition)
        /\ sw_then' = then
        /\ UNCHANGED <<value, equalityCheck, sw_ret, sw_arg, sw_defaults, sw_fix>>
        /\ SwitcherFrame

Done ==
    /\ sw_n < MaxCalls
    /\ sw_ret' = returnedValue
    /\ sw_op' = "done"
    /\ sw_n' = sw_n + 1
    /\ sw_calls' = <<>>
    /\ sw_conds' = <<>>
    /\ sw_then' = Undefined
    /\ UNCHANGED <<value, equalityCheck, returnedValue, sw_matched, sw_firstThen,
                   sw_arg, sw_defaults, sw_fix>>
    /\ SwitcherFrame

Default ==
    \E v \in TRet :
        /\ sw_n < MaxCalls
        /\ returnedValue' = DefaultSlot(returnedValue, v)
        /\ sw_ret' = DefaultSlot(returnedValue, v)
        /\ sw_op' = "default"
        /\ sw_n' = sw_n + 1
        /\ sw_calls' = <<>>
        /\ sw_arg' = v
        /\ sw_defaults' = sw_defaults + 1
        /\ sw_fix' = IF sw_defaults = 0 /\ ~sw_matched
                     THEN [on |-> TRUE, v |-> v] ELSE sw_fix
        /\ sw_conds' = <<>>
        /\ sw_then' = Undefined
        /\ UNCHANGED <<value, equalityCheck, sw_matched, sw_firstThen>>
        /\ SwitcherFrame

SwitcherNext == Case \/ Done \/ Default

\* C1: first match wins -- whenever done() is called after some case call
\* matched, it returns the thenValue of the first matching case in call order
\* (no later case call has changed the slot).
C1_FirstMatchWins ==
    (sw_op = "done" /\ sw_matched) => sw_ret = sw_firstThen

\* C2: default(v) returns the thenValue of the first matching case whenever an
\* earlier case matched (for every thenValue, null included), and returns v
\* when no case matched and no earlier default fixed the slot.  The thenValue
\* undefined, which case() itself cannot lock in, is left to C1.
C2_DefaultReturnsMatch ==
    /\ (sw_op = "default" /\ sw_matched /\ sw_firstThen # Undefined) =>
            sw_ret = sw_firstThen
    /\ (sw_op = "default" /\ ~sw_matched /\ sw_defaults = 1) => sw_ret = sw_arg

\* C13: a case call on a switcher whose slot is not yet set (no case has
\* matched, default has not been called) invokes the predicate on the
\* candidates in list order, once each, up to and including the first one equal
\* to the subject and no further; a case call on a switcher whose slot is set
\* invokes it on none and leaves the slot as it was.
C13_PredicateCalls ==
    [][sw_op' = "case" =>
        IF sw_matched \/ sw_defaults > 0
        THEN sw_calls' = <<>> /\ returnedValue' = returnedValue
        ELSE /\ Len(sw_calls') <= Len(sw_conds')
             /\ \A i \in 1..Len(sw_calls') : sw_calls'[i] = sw_conds'[i]
             /\ \A i \in 1..(Len(sw_calls') - 1) :
                    ~Equality(equalityCheck, value, sw_calls'[i])
             /\ Len(sw_calls') < Len(sw_conds') =>
                    Equality(equalityCheck, value, sw_calls'[Len(sw_calls')])]_vars

\* C14: once default(v) has been called on a switcher on which no case had
\* matched, the slot holds v: done() and every later default(w) return v, and a
\* later case call invokes no predicate and leaves v in the slot.
C14_DefaultFixes ==
    sw_fix.on =>
        /\ returnedValue = sw_fix.v
        /\ sw_op \in {"done", "default"} => sw_ret = sw_fix.v
        /\ sw_op = "case" => sw_calls = <<>>

\* C15: done() returns undefined exactly when no earlier case matched and
\* default was never called, and changes nothing of the switcher.
C15_DoneReads ==
    [][sw_op' = "done" =>
        /\ (sw_ret' = Undefined) <=> (~sw_matched /\ sw_defaults = 0)
        /\ returnedValue' = returnedValue
        /\ value' = value /\ equalityCheck' = equalityCheck]_vars

\* C26: a case call with a list of candidates (a single candidate counting as
\* a list of one) on a switcher on which no case has matched and default has
\* not been called sets the slot to thenValue if some candidate is equal to the
\* subject and leaves it unset if none is; the slot it leaves is the one the
\* call leaves for every other order of the candidates.
C26_ListForm ==
    [][(sw_op' = "case" /\ ~sw_matched /\ sw_defaults = 0) =>
        /\ (\E i \in 1..Len(sw_conds') : Equality(equalityCheck, value, sw_conds'[i])) =>
               returnedValue' = sw_then'
        /\ (\A i \in 1..Len(sw_conds') : ~Equality(equalityCheck, value, sw_conds'[i])) =>
               (returnedValue' = Undefined /\ returnedValue' = returnedValue)
        /\ \A perm \in Permutations(1..Len(sw_conds')) :
               CaseSlot(equalityCheck, value, returnedValue,
                        [i \in 1..Len(sw_conds') |-> sw_conds'[perm[i]]],
                        sw_then') = returnedValue']_vars

\* A list-form case whose second candidate alone equals the subject set the
\* slot of a fresh switcher.
C26_Witness ==
    /\ sw_op = "case" /\ sw_n = 1 /\ Len(sw_conds) = 2
    /\ ~Equality(equalityCheck, value, sw_conds[1])
    /\ Equality(equalityCheck, value, sw_conds[2])
    /\ sw_then = "R1" /\ returnedValue = "R1"

(***************************************************************************)
(* duration                                                                *)
(***************************************************************************)
MaxValue == 3          \* magnitudes passed to duration(): -1 .. MaxValue
MaxChain == 1          \* calls chained on the instance a call returned

\* A JavaScript number (an IEEE 754 double): NaN, or the integer
\* hi * 2^53 + n.  Integers of magnitude below 2^53 (hi = 0) are exact; beyond,
\* only the multiples of the spacing of their binade exist, and the result of
\* every arithmetic operation is rounded to the nearest of them, a tie going
\* to the even significand.
Num(n) == [nan |-> FALSE, hi |-> 0, n |-> n]
NaN == [nan |-> TRUE, hi |-> 0, n |-> 0]
TwoTo53 == [nan |-> FALSE, hi |-> 1, n |-> 0]
MaxSafeInteger == [nan |-> FALSE, hi |-> 1, n |-> -1]

\* The largest power of two not above h (h >= 1).
RECURSIVE TopBit(_)
TopBit(h) == IF h < 2 THEN 1 ELSE 2 * TopBit(h \div 2)

\* Distance between neighbouring doubles around hi * 2^53 + n (hi >= 1).
Spacing(hi, n) ==
    IF n < 0 /\ hi = TopBit(hi) THEN TopBit(hi) ELSE 2 * TopBit(hi)

\* The multiple of u nearest to n, the even multiple on a tie.
Nearest(n, u) ==
    IF 2 * (n % u) < u THEN (n \div u) * u
    ELSE IF 2 * (n % u) > u THEN ((n \div u) + 1) * u
    ELSE IF (n \div u) % 2 = 0 THEN (n \div u) * u
    ELSE ((n \div u) + 1) * u

\* The double nearest to the exact result hi * 2^53 + n.
Round(hi, n) ==
    IF hi = 0 THEN Num(n)
    ELSE IF hi > 0 THEN [nan |-> FALSE, hi |-> hi, n |-> Nearest(n, Spacing(hi, n))]
    ELSE [nan |-> FALSE, hi |-> hi, n |-> 0 - Nearest(0 - n, Spacing(0 - hi, 0 - n))]

NormalizedUnit == {"milliseconds", "seconds", "minutes", "hours", "days"}

\* unitToMs[key]: the multiplier, or undefined (0 here) for any other key
UnitToMsKeys == NormalizedUnit
unitToMs(key) ==
    CASE key = "milliseconds" -> 1
      [] key = "seconds" -> 1000
      [] key = "minutes" -> 60000
      [] key = "hours" -> 3600000
      [] key = "days" -> 86400000
      [] OTHER -> 0

DurationInputUnit ==
    {"ms", "millisecond", "milliseconds", "s", "second", "seconds",
     "m", "minute", "minutes", "h", "hour", "hours", "d", "day", "days"}

\* Names every object literal inherits from Object.prototype.
ObjectPrototypeNames == {"constructor", "hasOwnProperty", "__proto__"}

\* aliasMap whose entry for "m" is milliseconds
aliasMapShortM(key) ==
    CASE key \in {"ms", "millisecond", "milliseconds", "m"} -> "milliseconds"
      [] key \in {"s", "second", "seconds"} -> "seconds"
      [] key \in {"minute", "minutes"} -> "minutes"
      [] key \in {"h", "hour", "hours"} -> "hours"
      [] key \in {"d", "day", "days"} -> "days"
      [] key \in ObjectPrototypeNames \cup {"toString", "valueOf"} -> "[inherited]"
      [] OTHER -> Undefined

\* aliasMap[key]: the normalized unit of an alias; an inherited member of
\* Object.prototype (no unit) for an inherited name; undefined otherwise.
aliasMap(key) ==
    CASE key \in {"ms", "millisecond", "milliseconds"} -> "milliseconds"
      [] key \in {"s", "second", "seconds"} -> "seconds"
      [] key \in {"m", "minute", "minutes"} -> "minutes"
      [] key \in {"h", "hour", "hours"} -> "hours"
      [] key \in {"d", "day", "days"} -> "days"
      [] key \in ObjectPrototypeNames \cup {"toString", "valueOf"} -> "[inherited]"
      [] OTHER -> Undefined

\* value * unitToMs[aliasMap[unit]]: a product with undefined is NaN
Times(v, unit) ==
    IF aliasMap(unit) \in UnitToMsKeys
    THEN IF v.nan THEN NaN
         ELSE Round(v.hi * unitToMs(aliasMap(unit)), v.n * unitToMs(aliasMap(unit)))
    ELSE NaN

\* The own keys of the methods object of an instance.
MethodNames ==
    {"as", "add", "subtract", "valueOf", "toString", "clone", "Symbol.toPrimitive"}

\* prop in methods / prop in aliasMap: own or inherited
InMethods(prop) == prop \in MethodNames \cup ObjectPrototypeNames
InAliasMap(prop) == prop \in DurationInputUnit \cup ObjectPrototypeNames \cup {"toString", "valueOf"}

\* Outcomes of an operation.
Returned(kind, nan, num, den) ==
    [kind |-> kind, nan |-> nan, hi |-> 0, num |-> num, den |-> den, err |-> ""]
Thrown(err) ==
    [kind |-> "throw", nan |-> FALSE, hi |-> 0, num |-> 0, den |-> 1, err |-> err]
NoResult == Returned("none", FALSE, 0, 1)

\* (hi * 2^53 + n) / den where den divides hi (hi >= 1): the double nearest to
\* the exact quotient, an integer
Divide(hi, n, den) ==
    [hi |-> hi \div den,
     num |-> Nearest(n, den * Spacing(hi \div den, n)) \div den,
     den |-> 1]

\* ms / unitToMs[normalized]: the fraction (hi * 2^53 + num) / den.  It is
\* exact for a ms of magnitude below 2^53 and rounded to the nearest double
\* for a larger ms that is a multiple of den * 2^53 plus a small rest; for
\* other large ms the fraction is kept unrounded.
Quotient(m, normalized) ==
    IF normalized \in UnitToMsKeys /\ ~m.nan
    THEN IF m.hi >= 1 /\ m.hi % unitToMs(normalized) = 0
         THEN [Returned("number", FALSE,
                        Divide(m.hi, m.n, unitToMs(normalized)).num, 1)
                  EXCEPT !.hi = Divide(m.hi, m.n, unitToMs(normalized)).hi]
         ELSE [Returned("number", FALSE, m.n, unitToMs(normalized))
                  EXCEPT !.hi = m.hi]
    ELSE Returned("number", TRUE, 0, 1)

\* duration(value, unit): the ms of the instance it returns.  No statement of
\* the function throws, whatever the unit is.
DurationMs(v, unit) == Times(v, unit)

\* The get trap of the proxy.
ProxyGet(m, prop) ==
    IF InMethods(prop) THEN Returned("function", FALSE, 0, 1)
    ELSE IF InAliasMap(prop) THEN Quotient(m, aliasMap(prop))
    ELSE Thrown("Invalid property access")

\* a + b and a - b on numbers
Plus(a, b) == IF a.nan \/ b.nan THEN NaN ELSE Round(a.hi + b.hi, a.n + b.n)

\* a - b that stops at zero
MinusClamped(a, b) ==
    IF a.nan \/ b.nan THEN NaN
    ELSE IF Round(a.hi - b.hi, a.n - b.n).hi < 0
            \/ (Round(a.hi - b.hi, a.n - b.n).hi = 0 /\ Round(a.hi - b.hi, a.n - b.n).n < 0)
         THEN Num(0)
         ELSE Round(a.hi - b.hi, a.n - b.n)

Minus(a, b) == IF a.nan \/ b.nan THEN NaN ELSE Round(a.hi - b.hi, a.n - b.n)

\* instance.milliseconds, read through the get trap: ms / 1
Milliseconds(m) ==
    IF ProxyGet(m, "milliseconds").nan THEN NaN
    ELSE [nan |-> FALSE, hi |-> ProxyGet(m, "milliseconds").hi,
          n |-> ProxyGet(m, "milliseconds").num]

\* as(targetUnit): ms / unitToMs[aliasMap[targetUnit]]
DurationAs(m, targetUnit) == Quotient(m, aliasMap(targetUnit))

\* add that adds the raw value, whatever the unit
DurationAddRaw(m, addValue, addUnit) == [self |-> m, ret |-> Plus(m, addValue)]

\* add(addValue, addUnit): self is the ms of the receiver after the call, ret
\* the ms of the instance returned
DurationAdd(m, addValue, addUnit) ==
    [self |-> m,
     ret |-> DurationMs(Plus(m, Milliseconds(DurationMs(addValue, addUnit))),
                        "milliseconds")]

\* subtract that updates the receiver in place
DurationSubtractInPlace(m, subValue, subUnit) ==
    [self |-> Minus(m, DurationMs(subValue, subUnit)),
     ret |-> Minus(m, DurationMs(subValue, subUnit))]

\* subtract(subValue, subUnit)
DurationSubtract(m, subValue, subUnit) ==
    [self |-> m,
     ret |-> DurationMs(Minus(m, Milliseconds(DurationMs(subValue, subUnit))),
                        "milliseconds")]

\* clone()
DurationClone(m) == [self |-> m, ret |-> DurationMs(m, "milliseconds")]

\* A returned instance as an outcome, and the ms of such an outcome.
Instance(m) == [Returned("duration", m.nan, m.n, 1) EXCEPT !.hi = m.hi]
InstanceMs(res) ==
    IF res.nan THEN NaN ELSE [nan |-> FALSE, hi |-> res.hi, n |-> res.num]

\* No call produced the current instance: duration() constructed it.
NoCall == [op |-> "create", m |-> Num(0), v |-> Num(0), unit |-> ""]

\* Unit strings and property names the callers pass.
OpUnits == {"ms", "second", "fortnight"}
OpValues == {Num(1), Num(2)}
AsUnits == {"ms", "s", "second", "d", "fortnight"}
UnitArgs == DurationInputUnit \cup {"fortnight", "weeks", "constructor"}
PropArgs == DurationInputUnit \cup MethodNames \cup ObjectPrototypeNames
               \cup {"weeks", "length", "value"}
ValueArgs == {Num(n) : n \in -1..MaxValue} \cup {TwoTo53, MaxSafeInteger}

DurationInit ==
    /\ ms = Num(0)
    /\ d_live = FALSE
    /\ d_op = "none"
    /\ d_arg = ""
    /\ d_res = NoResult
    /\ d_val = Num(0)
    /\ d_ms0 = Num(0)
    /\ d_prev = NoCall
    /\ d_len = 0

\* duration(value, unit)
Create ==
    \E v \in ValueArgs, unit \in UnitArgs :
        /\ ~d_live
        /\ ms' = DurationMs(v, unit)
        /\ d_live' = TRUE
        /\ d_op' = "create"
        /\ d_arg' = unit
        /\ d_res' = Instance(DurationMs(v, unit))
        /\ d_val' = v
        /\ d_ms0' = DurationMs(v, unit)
        /\ d_prev' = NoCall
        /\ d_len' = 0
        /\ DurationFrame

\* instance[prop]
Get ==
    \E prop \in PropArgs :
        /\ d_live
        /\ d_op' = "get"
        /\ d_arg' = prop
        /\ d_res' = ProxyGet(ms, prop)
        /\ UNCHANGED <<ms, d_live, d_val, d_ms0, d_prev, d_len>>
        /\ DurationFrame

\* instance.as(targetUnit)
As ==
    \E unit \in AsUnits :
        /\ d_live
        /\ d_op' = "as"
        /\ d_arg' = unit
        /\ d_res' = DurationAs(ms, unit)
        /\ UNCHANGED <<ms, d_live, d_val, d_ms0, d_prev, d_len>>
        /\ DurationFrame

\* instance.add(addValue, addUnit)
Add ==
    \E v \in OpValues, unit \in OpUnits :
        /\ d_live
        /\ d_op' = "add"
        /\ d_arg' = unit
        /\ d_val' = v
        /\ ms' = DurationAdd(ms, v, unit).self
        /\ d_res' = Instance(DurationAdd(ms, v, unit).ret)
        /\ UNCHANGED <<d_live, d_ms0, d_prev, d_len>>
        /\ DurationFrame

\* instance.subtract(subValue, subUnit)
Subtract ==
    \E v \in OpValues, unit \in OpUnits :
        /\ d_live
        /\ d_op' = "subtract"
        /\ d_arg' = unit
        /\ d_val' = v
        /\ ms' = DurationSubtract(ms, v, unit).self
        /\ d_res' = Instance(DurationSubtract(ms, v, unit).ret)
        /\ UNCHANGED <<d_live, d_ms0, d_prev, d_len>>
        /\ DurationFrame

\* instance.clone()
Clone ==
    /\ d_live
    /\ d_op' = "clone"
    /\ d_arg' = ""
    /\ ms' = DurationClone(ms).self
    /\ d_res' = Instance(DurationClone(ms).ret)
    /\ UNCHANGED <<d_live, d_val, d_ms0, d_prev, d_len>>
    /\ DurationFrame

\* The caller chains the next call on the instance add/subtract/clone returned,
\* as in duration(1, "hour").add(30, "minutes").add(15, "seconds").
Chain ==
    /\ d_live
    /\ d_op \in {"add", "subtract", "clone"}
    /\ d_len < MaxChain
    /\ ms' = InstanceMs(d_res)
    /\ d_ms0' = InstanceMs(d_res)
    /\ d_prev' = [op |-> d_op, m |-> ms, v |-> d_val, unit |-> d_arg]
    /\ d_len' = d_len + 1
    /\ d_op' = "chain"
    /\ UNCHANGED <<d_live, d_arg, d_res, d_val>>
    /\ DurationFrame

DurationNext == Create \/ Get \/ As \/ Add \/ Subtract \/ Clone \/ Chain

\* C3: duration(value, unit) with a unit outside the 15 aliases throws and
\* returns no instance.
C3_InvalidUnitThrows ==
    (d_op = "create" /\ d_arg \notin DurationInputUnit) =>
        (d_res.kind = "throw" /\ ~d_live)

\* C10: reading a property that is neither a unit accessor nor a declared
\* method throws "Invalid property access".  The accessors are taken to be all
\* 15 aliases the DurationInstance type declares, which include the five
\* canonical names of the claim, so every name tested here is one the claim
\* says must throw.
C10_OtherPropertyThrows ==
    (d_op = "get" /\ d_arg \notin DurationInputUnit \cup MethodNames) =>
        (d_res.kind = "throw" /\ d_res.err = "Invalid property access")

\* C11: as, add and subtract called with a unit outside the 15 aliases fail
\* with an invalid-unit error.
C11_InvalidUnitFails ==
    (d_op \in {"as", "add", "subtract"} /\ d_arg \notin DurationInputUnit) =>
        d_res.kind = "throw"

\* C19: an instance keeps the ms, and so the value of every accessor, it was
\* returned with, whatever as, add, subtract and clone calls are made on it;
\* add, subtract and clone return an instance.
C19_Immutable ==
    d_live =>
        /\ ms = d_ms0
        /\ \A prop \in DurationInputUnit : ProxyGet(ms, prop) = ProxyGet(d_ms0, prop)
        /\ (d_op \in {"add", "subtract", "clone"}) => d_res.kind = "duration"

\* A subtract call returned an instance of another length than its receiver,
\* which still has the length it was created with.
C19_Witness ==
    /\ d_live /\ d_op = "subtract" /\ ~ms.nan /\ ~d_res.nan
    /\ InstanceMs(d_res) # ms /\ ms = d_ms0

\* C20: addition is unit-independent and commutative.  For an add call with a
\* recognized unit on an instance of a recognized unit: the result is
\* ms + value * multiplier; it is the result of creating the added duration
\* first and adding the receiver's; and when the receiver came from an add,
\* making the two adds in the other order gives the same result.
C20_AddCommutes ==
    (d_op = "add" /\ d_arg \in DurationInputUnit /\ ~ms.nan) =>
        /\ InstanceMs(d_res) = Plus(ms, Times(d_val, d_arg))
        /\ \A a \in ValueArgs, u1 \in DurationInputUnit :
                DurationMs(a, u1) = ms =>
                    DurationAdd(DurationMs(d_val, d_arg), a, u1).ret = InstanceMs(d_res)
        /\ (d_prev.op = "add" /\ d_prev.unit \in DurationInputUnit /\ ~d_prev.m.nan) =>
                DurationAdd(DurationAdd(d_prev.m, d_val, d_arg).ret,
                            d_prev.v, d_prev.unit).ret = InstanceMs(d_res)

\* C20 as amended: the same, the order of two chained adds being free when
\* the lengths involved are integers of magnitude below 2^53.
C20_AddCommutesSafe ==
    (d_op = "add" /\ d_arg \in DurationInputUnit /\ ~ms.nan) =>
        /\ InstanceMs(d_res) = Plus(ms, Times(d_val, d_arg))
        /\ \A a \in ValueArgs, u1 \in DurationInputUnit :
                DurationMs(a, u1) = ms =>
                    DurationAdd(DurationMs(d_val, d_arg), a, u1).ret = InstanceMs(d_res)
        /\ (/\ d_prev.op = "add" /\ d_prev.unit \in DurationInputUnit
            /\ ~d_prev.m.nan
            /\ d_prev.m.hi = 0 /\ InstanceMs(d_res).hi = 0) =>
                DurationAdd(DurationAdd(d_prev.m, d_val, d_arg).ret,
                            d_prev.v, d_prev.unit).ret = InstanceMs(d_res)

\* Two adds of different units were chained on an instance of safe length.
C20_Witness ==
    /\ d_op = "add" /\ d_prev.op = "add" /\ ~ms.nan /\ ~d_prev.m.nan
    /\ d_arg \in DurationInputUnit /\ d_prev.unit \in DurationInputUnit
    /\ aliasMap(d_arg) # aliasMap(d_prev.unit) /\ d_prev.m.hi = 0 /\ d_prev.m.n > 0

\* C29: subtract is the inverse of add, without clamping.  For a subtract call
\* with a recognized unit: the result is ms - value * multiplier; it is negative
\* when the subtrahend exceeds ms; and when the receiver came from an add of
\* the same value and unit, the result is the ms that add was called on.
C29_SubtractInverse ==
    (d_op = "subtract" /\ d_arg \in DurationInputUnit /\ ~ms.nan) =>
        LET sub == Times(d_val, d_arg)
            res == InstanceMs(d_res)
        IN /\ res = Minus(ms, sub)
           /\ (sub.hi > ms.hi \/ (sub.hi = ms.hi /\ sub.n > ms.n)) =>
                  (res.hi < 0 \/ (res.hi = 0 /\ res.n < 0))
           /\ (/\ d_prev.op = "add" /\ ~d_prev.m.nan
               /\ d_prev.v = d_val /\ d_prev.unit = d_arg) => res = d_prev.m

\* C29 as amended: the same, add followed by subtract giving back the ms when
\* the lengths involved are integers of magnitude below 2^53.
C29_SubtractInverseSafe ==
    (d_op = "subtract" /\ d_arg \in DurationInputUnit /\ ~ms.nan) =>
        LET sub == Times(d_val, d_arg)
            res == InstanceMs(d_res)
        IN /\ res = Minus(ms, sub)
           /\ (sub.hi > ms.hi \/ (sub.hi = ms.hi /\ sub.n > ms.n)) =>
                  (res.hi < 0 \/ (res.hi = 0 /\ res.n < 0))
           /\ (/\ d_prev.op = "add" /\ ~d_prev.m.nan
               /\ d_prev.v = d_val /\ d_prev.unit = d_arg
               /\ d_prev.m.hi = 0 /\ ms.hi = 0) => res = d_prev.m

\* A subtract undid the add of two seconds that returned its receiver and
\* gave back a negative length.
C29_Witness ==
    /\ d_op = "subtract" /\ d_arg = "second" /\ d_val = Num(2)
    /\ d_prev.op = "add" /\ d_prev.v = d_val /\ d_prev.unit = d_arg
    /\ d_prev.m = Num(-1) /\ InstanceMs(d_res) = Num(-1)

\* C21: duration(V, U) with a recognized U stores V * multiplier, the
\* multipliers being 1, 1000, 60000, 3600000 and 86400000 for the spellings of
\* ms, s, m, h and d; and as(U') on an instance that duration(V, U) returns, U
\* and U' spellings of one unit, returns V.
C21_RoundTrip ==
    LET multiplier(u) ==
            CASE u \in {"ms", "millisecond", "milliseconds"} -> 1
              [] u \in {"s", "second", "seconds"} -> 1000
              [] u \in {"m", "minute", "minutes"} -> 60000
              [] u \in {"h", "hour", "hours"} -> 3600000
              [] u \in {"d", "day", "days"} -> 86400000
    IN /\ (d_op = "create" /\ d_arg \in DurationInputUnit) =>
              ms = Round(d_val.hi * multiplier(d_arg), d_val.n * multiplier(d_arg))
       /\ (d_op = "as" /\ d_len = 0 /\ d_arg \in DurationInputUnit) =>
              \A V \in ValueArgs, U \in DurationInputUnit :
                  (DurationMs(V, U) = ms /\ multiplier(U) = multiplier(d_arg)) =>
                      (~d_res.nan /\ d_res.hi = V.hi * d_res.den
                       /\ d_res.num = V.n * d_res.den)

\* C21 as amended: the same, as(U') returning V when the product
\* V * multiplier was computed without rounding.
C21_RoundTripExact ==
    LET multiplier(u) ==
            CASE u \in {"ms", "millisecond", "milliseconds"} -> 1
              [] u \in {"s", "second", "seconds"} -> 1000
              [] u \in {"m", "minute", "minutes"} -> 60000
              [] u \in {"h", "hour", "hours"} -> 3600000
              [] u \in {"d", "day", "days"} -> 86400000
    IN /\ (d_op = "create" /\ d_arg \in DurationInputUnit) =>
              ms = Round(d_val.hi * multiplier(d_arg), d_val.n * multiplier(d_arg))
       /\ (d_op = "as" /\ d_len = 0 /\ d_arg \in DurationInputUnit) =>
              \A V \in ValueArgs, U \in DurationInputUnit :
                  (/\ DurationMs(V, U) = ms /\ multiplier(U) = multiplier(d_arg)
                   /\ ms.hi = V.hi * multiplier(U) /\ ms.n = V.n * multiplier(U)) =>
                      (~d_res.nan /\ d_res.hi = V.hi * d_res.den
                       /\ d_res.num = V.n * d_res.den)

\* as("d") returned the value an instance was created with in days.
C21_Witness ==
    /\ d_op = "as" /\ d_len = 0 /\ d_arg = "d" /\ ~d_res.nan
    /\ ms = Num(3 * 86400000) /\ d_res.hi = 0 /\ d_res.num = 3 * d_res.den

(***************************************************************************)
(* useTimeout and useInterval                                              *)
(*                                                                         *)
(* JavaScript runs each callback to completion, so the host fires a timer  *)
(* only when no handler is executing; set, clear and dispatch may be       *)
(* called by the component between callbacks or from inside the handler    *)
(* that is executing.  The handler passed to a set call is named by the    *)
(* id the host returned to that call.                                      *)
(***************************************************************************)
MaxTimers == 3         \* set calls made on one hook instance
MaxTicks == 2          \* invocations of one interval handler

Hooks == {"useTimeout", "useInterval"}
Ids == 1..MaxTimers

\* ref.current = null
NullRef == [id |-> 0, method |-> 0]

Frame(method, via) == [method |-> method, via |-> via]

\* clear() that cancels the host timer and forgets to null the ref
TimeoutClearKeepsRef(ref, host) == [ref |-> ref, host |-> host \ {ref.id}]

\* useTimeout.clear
TimeoutClear(ref, host) ==
    IF ref # NullRef
    THEN [ref |-> NullRef, host |-> host \ {ref.id}]
    ELSE [ref |-> ref, host |-> host]

\* useInterval.clear
IntervalClear(ref, host) ==
    IF ref # NullRef
    THEN [ref |-> NullRef, host |-> host \ {ref.id}]
    ELSE [ref |-> ref, host |-> host]

\* useTimeout.set: the state after clear(), setTimeout and the assignment
TimeoutSet(ref, host, id) ==
    [ref |-> [id |-> id, method |-> id],
     host |-> TimeoutClear(ref, host).host \cup {id}]

\* useInterval.set that does not call clear() first
IntervalSetKeepsOld(ref, host, id) ==
    [ref |-> [id |-> id, method |-> id], host |-> host \cup {id}]

\* useInterval.set
IntervalSet(ref, host, id) ==
    [ref |-> [id |-> id, method |-> id],
     host |-> IntervalClear(ref, host).host \cup {id}]

\* handle: the ref after the handler it called has returned
HandleAfter(ref) == NullRef

\* An effect that registers no cleanup
NoCleanup(ref, host) == [ref |-> ref, host |-> host]

\* The cleanup the hook registers with useEffect: what teardown runs.
TimeoutCleanup(ref, host) == TimeoutClear(ref, host)
IntervalCleanup(ref, host) == IntervalClear(ref, host)

\* Invoking the handler of set call m.
Invoke(m, via) ==
    /\ stack' = Append(stack, Frame(m, via))
    /\ invoked' = [invoked EXCEPT ![m] = @ + 1]
    /\ staleInvoked' = (staleInvoked \/ m # nextId - 1)

NoInvoke == UNCHANGED <<stack, invoked, staleInvoked>>

HooksInit ==
    /\ hook \in Hooks
    /\ timeoutRef = NullRef
    /\ hostTimeouts = {}
    /\ intervalRef = NullRef
    /\ hostIntervals = {}
    /\ nextId = 1
    /\ stack = <<>>
    /\ invoked = [m \in Ids |-> 0]
    /\ unmounted = FALSE
    /\ h_op = "mount"
    /\ latest = 0
    /\ fired = {}
    /\ staleInvoked = FALSE
    /\ sinceClear = FALSE
    /\ tornAt = 0
    /\ cancelled = 0

\* ---- useTimeout ----

\* set(handler, time)
TSet ==
    /\ hook = "useTimeout"
    /\ nextId <= MaxTimers
    /\ timeoutRef' = TimeoutSet(timeoutRef, hostTimeouts, nextId).ref
    /\ hostTimeouts' = TimeoutSet(timeoutRef, hostTimeouts, nextId).host
    /\ nextId' = nextId + 1
    /\ latest' = nextId
    /\ sinceClear' = FALSE
    /\ h_op' = "set"
    /\ NoInvoke
    /\ UNCHANGED <<hook, intervalRef, hostIntervals, unmounted, fired, tornAt, cancelled>>
    /\ HooksFrame

\* clear()
TClear ==
    /\ hook = "useTimeout"
    /\ timeoutRef' = TimeoutClear(timeoutRef, hostTimeouts).ref
    /\ hostTimeouts' = TimeoutClear(timeoutRef, hostTimeouts).host
    /\ latest' = 0
    /\ sinceClear' = TRUE
    /\ cancelled' = timeoutRef.id
    /\ h_op' = "clear"
    /\ NoInvoke
    /\ UNCHANGED <<hook, intervalRef, hostIntervals, nextId, unmounted, fired, tornAt>>
    /\ HooksFrame

\* dispatch(): read the method, clear(), call the method if there was one
TDispatch ==
    /\ hook = "useTimeout"
    /\ timeoutRef' = TimeoutClear(timeoutRef, hostTimeouts).ref
    /\ hostTimeouts' = TimeoutClear(timeoutRef, hostTimeouts).host
    /\ IF timeoutRef # NullRef
       THEN Invoke(timeoutRef.method, "dispatch")
       ELSE NoInvoke
    /\ latest' = 0
    /\ h_op' = "dispatch"
    /\ UNCHANGED <<hook, intervalRef, hostIntervals, nextId, unmounted, fired,
                   sinceClear, tornAt, cancelled>>
    /\ HooksFrame

\* The host timeout id elapses and the host calls handle.
TFire ==
    \E id \in hostTimeouts :
        /\ hook = "useTimeout"
        /\ stack = <<>>
        /\ hostTimeouts' = hostTimeouts \ {id}
        /\ fired' = fired \cup {id}
        /\ IF timeoutRef # NullRef
           THEN Invoke(timeoutRef.method, "handle") /\ UNCHANGED timeoutRef
           ELSE NoInvoke /\ timeoutRef' = HandleAfter(timeoutRef)
        /\ h_op' = "fire"
        /\ UNCHANGED <<hook, intervalRef, hostIntervals, nextId, unmounted, latest,
                       sinceClear, tornAt, cancelled>>
        /\ HooksFrame

\* ---- useInterval ----

\* set(handler, interval)
ISet ==
    /\ hook = "useInterval"
    /\ nextId <= MaxTimers
    /\ intervalRef' = IntervalSet(intervalRef, hostIntervals, nextId).ref
    /\ hostIntervals' = IntervalSet(intervalRef, hostIntervals, nextId).host
    /\ nextId' = nextId + 1
    /\ latest' = nextId
    /\ sinceClear' = FALSE
    /\ h_op' = "set"
    /\ NoInvoke
    /\ UNCHANGED <<hook, timeoutRef, hostTimeouts, unmounted, fired, tornAt, cancelled>>
    /\ HooksFrame

\* clear()
IClear ==
    /\ hook = "useInterval"
    /\ intervalRef' = IntervalClear(intervalRef, hostIntervals).ref
    /\ hostIntervals' = IntervalClear(intervalRef, hostIntervals).host
    /\ latest' = 0
    /\ sinceClear' = TRUE
    /\ cancelled' = intervalRef.id
    /\ h_op' = "clear"
    /\ NoInvoke
    /\ UNCHANGED <<hook, timeoutRef, hostTimeouts, nextId, unmounted, fired, tornAt>>
    /\ HooksFrame

\* The host interval id ticks: () => intervalRef.current?.method()
ITick ==
    \E id \in hostIntervals :
        /\ hook = "useInterval"
        /\ stack = <<>>
        /\ IF intervalRef # NullRef
           THEN /\ invoked[intervalRef.method] < MaxTicks
                /\ Invoke(intervalRef.method, "tick")
           ELSE NoInvoke
        /\ h_op' = "tick"
        /\ UNCHANGED <<hook, timeoutRef, hostTimeouts, intervalRef, hostIntervals,
                       nextId, unmounted, latest, fired, sinceClear, tornAt, cancelled>>
        /\ HooksFrame

\* ---- both ----

\* The executing handler returns to its caller; handle then nulls the ref.
Return ==
    /\ stack # <<>>
    /\ stack' = SubSeq(stack, 1, Len(stack) - 1)
    /\ timeoutRef' = IF stack[Len(stack)].via = "handle"
                     THEN HandleAfter(timeoutRef)
                     ELSE timeoutRef
    /\ h_op' = "return"
    /\ UNCHANGED <<hook, hostTimeouts, intervalRef, hostIntervals, nextId, invoked,
                   unmounted, latest, fired, staleInvoked, sinceClear, tornAt, cancelled>>
    /\ HooksFrame

\* The component is torn down: React runs the cleanup of the effect, between
\* callbacks or (an unmount flushed synchronously) inside a running handler.
Teardown ==
    /\ ~unmounted
    /\ IF hook = "useTimeout"
       THEN /\ timeoutRef' = TimeoutCleanup(timeoutRef, hostTimeouts).ref
            /\ hostTimeouts' = TimeoutCleanup(timeoutRef, hostTimeouts).host
            /\ UNCHANGED <<intervalRef, hostIntervals>>
       ELSE /\ intervalRef' = IntervalCleanup(intervalRef, hostIntervals).ref
            /\ hostIntervals' = IntervalCleanup(intervalRef, hostIntervals).host
            /\ UNCHANGED <<timeoutRef, hostTimeouts>>
    /\ unmounted' = TRUE
    /\ tornAt' = nextId
    /\ latest' = 0
    /\ sinceClear' = TRUE
    /\ cancelled' = IF hook = "useTimeout" THEN timeoutRef.id ELSE intervalRef.id
    /\ h_op' = "teardown"
    /\ NoInvoke
    /\ UNCHANGED <<hook, nextId, fired>>
    /\ HooksFrame

HooksNext ==
    \/ TSet \/ TClear \/ TDispatch \/ TFire
    \/ ISet \/ IClear \/ ITick
    \/ Return \/ Teardown

\* The timeout of the hook that is pending: set, and since then neither
\* elapsed, cleared, dispatched nor torn down (0: none).
Pending == IF latest # 0 /\ latest \notin fired THEN latest ELSE 0

HookState == <<timeoutRef, hostTimeouts, intervalRef, hostIntervals, stack, invoked>>

\* C4: useTimeout -- when the host timer of a set call elapses and no set,
\* clear, dispatch or teardown followed that call, its handler has been
\* invoked, wherever the set call was issued.
C4_SetHandlerInvoked ==
    (hook = "useTimeout" /\ latest # 0 /\ latest \in fired) => invoked[latest] >= 1

\* C5: useTimeout -- the handler of each set call is invoked at most once,
\* counting the timer firing and dispatch().
C5_AtMostOnce ==
    hook = "useTimeout" => \A m \in Ids : invoked[m] <= 1

\* C6: useTimeout.dispatch() -- with a timeout pending it invokes that handler
\* exactly once and cancels its host timer; with nothing pending it invokes
\* nothing and changes no state.
C6_Dispatch ==
    [][(hook = "useTimeout" /\ h_op' = "dispatch") =>
          IF Pending # 0
          THEN /\ invoked' = [invoked EXCEPT ![Pending] = @ + 1]
               /\ Pending \notin hostTimeouts'
          ELSE UNCHANGED HookState]_vars

\* C7: useTimeout -- at most one host timer of the hook is pending, and a
\* handler replaced by a later set is never invoked.
C7_SingleTimeout ==
    hook = "useTimeout" => (Cardinality(hostTimeouts) <= 1 /\ ~staleInvoked)

C22_Interval ==
    [][hook = "useInterval" =>
        /\ Cardinality(hostIntervals') <= 1
        /\ h_op' = "set" => hostIntervals' = {latest'}
        /\ h_op' = "tick" =>
               (latest # 0 /\ invoked' = [invoked EXCEPT ![latest] = @ + 1])
        /\ \A id \in Ids : invoked'[id] # invoked[id] => id = latest]_vars

\* A tick invoked the handler of the second set call after ticks had invoked
\* the handler of the first.
C22_Witness ==
    /\ hook = "useInterval" /\ h_op = "tick" /\ latest = 2
    /\ invoked[1] >= 1 /\ invoked[2] >= 1 /\ hostIntervals = {2}

MaxLen == 4            \* characters in the buffer

LF == "\n"
Chars == {"a", " ", LF}
WhiteSpace == {" ", LF}

\* String.prototype.trim
RECURSIVE TrimStart(_)
TrimStart(str) ==
    IF str # <<>> /\ Head(str) \in WhiteSpace THEN TrimStart(Tail(str)) ELSE str
RECURSIVE TrimEnd(_)
TrimEnd(str) ==
    IF str # <<>> /\ str[Len(str)] \in WhiteSpace
    THEN TrimEnd(SubSeq(str, 1, Len(str) - 1)) ELSE str
Trim(str) == TrimEnd(TrimStart(str))

\* str.split("\n"): the segments between line feeds, at least one
RECURSIVE Split(_)
Split(str) ==
    IF \E i \in 1..Len(str) : str[i] = LF
    THEN LET i == CHOOSE k \in 1..Len(str) :
                      str[k] = LF /\ \A j \in 1..(k - 1) : str[j] # LF
         IN <<SubSeq(str, 1, i - 1)>> \o Split(SubSeq(str, i + 1, Len(str)))
    ELSE <<str>>

\* list.join("\n")
RECURSIVE Join(_)
Join(list) ==
    IF list = <<>> THEN <<>>
    ELSE IF Len(list) = 1 THEN list[1]
    ELSE list[1] \o <<LF>> \o Join(Tail(list))

\* A map that takes at most one white space off each end of a line
MapTrimOnce(list) ==
    [i \in 1..Len(list) |->
        LET l == list[i]
            s == IF l # <<>> /\ Head(l) \in WhiteSpace THEN Tail(l) ELSE l
        IN  IF s # <<>> /\ s[Len(s)] \in WhiteSpace
            THEN SubSeq(s, 1, Len(s) - 1) ELSE s]

\* list.map((line) => line.trim())
MapTrim(list) == [i \in 1..Len(list) |-> Trim(list[i])]

\* "\n".repeat(count), for count >= 0
RECURSIVE Repeat(_)
Repeat(count) == IF count <= 0 THEN <<>> ELSE <<LF>> \o Repeat(count - 1)

\* add that puts the string in front of the buffer
addFront(buf, str) == str \o buf

\* The buffer after each method.
add(buf, str) == buf \o str
space(buf) == buf \o <<" ">>
newLine(buf, count) == buf \o Repeat(count)

\* line that puts the line feed first
lineFeedFirst(buf, str) == newLine(buf, 1) \o str

line(buf, str) == newLine(buf \o str, 1)

\* trimLines that trims the buffer as one string
trimWhole(buf) == Trim(buf)

\* trimLines(): the buffer after the call
trimLines(buf) == Join(MapTrim(Split(buf)))

\* What each read returns.
lines(buf) == Split(buf)

\* isEmpty that compares the buffer itself with ""
isEmptyUntrimmed(buf) == buf = <<>>

isEmpty(buf) == Trim(buf) = <<>>
length(buf) == Len(buf)

\* A callback (builder) => void: the calls it makes on the builder it is given.
Call(m, str) == [m |-> m, str |-> str]
Callbacks ==
    {<<Call("add", <<"a">>), Call("newLine", <<>>)>>,
     <<Call("space", <<>>), Call("line", <<"a">>)>>,
     <<Call("add", <<" ">>), Call("trimLines", <<>>)>>}

\* The buffer after one call of a callback.
Step(buf, c) ==
    CASE c.m = "add" -> add(buf, c.str)
      [] c.m = "space" -> space(buf)
      [] c.m = "newLine" -> newLine(buf, 1)
      [] c.m = "line" -> line(buf, c.str)
      [] c.m = "trimLines" -> trimLines(buf)

\* The buffer after a callback ran on the builder holding buf.
RECURSIVE Run(_, _)
Run(calls, buf) ==
    IF calls = <<>> THEN buf ELSE Run(Tail(calls), Step(buf, Head(calls)))

CallsTrimLines(calls) == \E i \in 1..Len(calls) : calls[i].m = "trimLines"

\* A then/else argument of if(): a string, a callback, or undefined.
StringBranch(str) == [kind |-> "string", str |-> str, calls |-> <<>>]
FunctionBranch(calls) == [kind |-> "function", str |-> <<>>, calls |-> calls]
UndefinedBranch == [kind |-> "undefined", str |-> <<>>, calls |-> <<>>]

TextArgs == {<<>>, <<"a">>, <<" ">>, <<" ", "a">>, <<"a", LF, " ">>}
Branches ==
    {StringBranch(str) : str \in {<<"a">>, <<" ", "a">>}}
        \cup {FunctionBranch(calls) : calls \in Callbacks}

\* The arguments of an if() call: the three positional ones, or one object
\* whose properties are condition, then and else.
Positional(c, t, e) ==
    [isObject |-> FALSE, condition |-> c, then |-> t, otherwise |-> e,
     o_condition |-> FALSE, o_then |-> UndefinedBranch, o_else |-> UndefinedBranch]
Object(c, t, e) ==
    [isObject |-> TRUE, condition |-> FALSE, then |-> UndefinedBranch,
     otherwise |-> UndefinedBranch,
     o_condition |-> c, o_then |-> t, o_else |-> e]
IfArgs ==
    {Positional(c, t, e) : c \in BOOLEAN, t \in Branches,
                           e \in Branches \cup {UndefinedBranch}}
        \cup {Object(c, t, e) : c \in BOOLEAN, t \in Branches,
                                e \in Branches \cup {UndefinedBranch}}

\* if() that takes onElse from the third argument in both forms
IfParamsThirdArg(call) ==
    IF call.isObject
    THEN [cond |-> call.o_condition, onThen |-> call.o_then, onElse |-> call.otherwise]
    ELSE [cond |-> call.condition, onThen |-> call.then, onElse |-> call.otherwise]

\* if(): cond, onThen and onElse as the first statement sets them
IfParams(call) ==
    IF call.isObject
    THEN [cond |-> call.o_condition, onThen |-> call.o_then, onElse |-> call.o_else]
    ELSE [cond |-> call.condition, onThen |-> call.then, onElse |-> call.otherwise]

\* if() whose second test is not under an else
IfBranchesBoth(params) ==
    (IF params.cond THEN <<"then">> ELSE <<>>)
        \o (IF params.onElse # UndefinedBranch THEN <<"else">> ELSE <<>>)

\* if(): the branches the second statement applies, in order
IfBranches(params) ==
    IF params.cond THEN <<"then">>
    ELSE IF params.onElse # UndefinedBranch THEN <<"else">>
    ELSE <<>>

\* typeof branch === "function" ? branch(this) : this.add(branch)
Apply(branch, buf) ==
    IF branch.kind = "function" THEN Run(branch.calls, buf) ELSE add(buf, branch.str)

\* if(): the buffer after the call
RECURSIVE IfText(_, _, _)
IfText(params, ran, buf) ==
    IF ran = <<>> THEN buf
    ELSE IfText(params, Tail(ran),
                Apply(IF Head(ran) = "then" THEN params.onThen ELSE params.onElse, buf))

\* The calls a branch makes run trimLines.
BranchTrims(params, ran) ==
    \E i \in 1..Len(ran) :
        CallsTrimLines((IF ran[i] = "then" THEN params.onThen ELSE params.onElse).calls)

\* Results of the reads.
\* The argument of newLine: a count, or none.
NewLineArgs ==
    {[given |-> FALSE, n |-> 0]} \cup {[given |-> TRUE, n |-> n] : n \in {-1, 0, 1, 2}}

\* newLine(count = 1): the value of count in the body
Count(arg) == IF arg.given THEN arg.n ELSE 1

\* The string and count arguments of a call that has none.
NoArg == [str |-> <<>>, count |-> [given |-> FALSE, n |-> 0]]
NoRead == [kind |-> "none", str |-> <<>>, list |-> <<>>, bool |-> FALSE, num |-> 0]
NoIf == Positional(FALSE, UndefinedBranch, UndefinedBranch)

TextBuilderInit ==
    /\ text = <<>>
    /\ tb_prev = <<>>
    /\ tb_op = "new"
    /\ tb_call = NoIf
    /\ tb_ret = NoRead
    /\ tb_ran = <<>>
    /\ tb_trim = FALSE
    /\ tb_arg = NoArg
    /\ tb_since = "never"
    /\ tb_twice = FALSE

\* A call that writes buf to the buffer.
Write(op, buf) ==
    /\ Len(buf) <= MaxLen
    /\ text' = buf
    /\ tb_prev' = text
    /\ tb_op' = op
    /\ tb_ret' = NoRead
    /\ tb_since' = IF tb_since # "never" /\ buf # text THEN "changed" ELSE tb_since
    /\ tb_twice' = (op = "trimLines" /\ tb_op = "trimLines" /\ tb_prev # text)

\* A read that returns ret.
Read(op, ret) ==
    /\ tb_op' = op
    /\ tb_ret' = ret
    /\ tb_prev' = text
    /\ tb_since' = IF op \in {"done", "toString"}
                   THEN IF tb_since = "changed" THEN "reflected" ELSE "same"
                   ELSE tb_since
    /\ tb_twice' = FALSE
    /\ UNCHANGED text

TextAdd ==
    \E str \in TextArgs :
        /\ Write("add", add(text, str))
        /\ tb_arg' = [NoArg EXCEPT !.str = str] /\ tb_call' = NoIf /\ tb_ran' = <<>> /\ tb_trim' = FALSE
        /\ TextBuilderFrame

TextSpace ==
    /\ Write("space", space(text))
    /\ tb_arg' = NoArg /\ tb_call' = NoIf /\ tb_ran' = <<>> /\ tb_trim' = FALSE
    /\ TextBuilderFrame

\* newLine(count) and newLine(), whose count is 1; a negative count makes
\* String.prototype.repeat throw a RangeError before the buffer is assigned.
TextNewLine ==
    \E arg \in NewLineArgs :
        /\ IF Count(arg) < 0
           THEN Read("newLine", [NoRead EXCEPT !.kind = "throw"])
           ELSE Write("newLine", newLine(text, Count(arg)))
        /\ tb_arg' = [NoArg EXCEPT !.count = arg] /\ tb_call' = NoIf /\ tb_ran' = <<>> /\ tb_trim' = FALSE
        /\ TextBuilderFrame

TextLine ==
    \E str \in TextArgs :
        /\ Write("line", line(text, str))
        /\ tb_arg' = [NoArg EXCEPT !.str = str] /\ tb_call' = NoIf /\ tb_ran' = <<>> /\ tb_trim' = FALSE
        /\ TextBuilderFrame

TextIf ==
    \E call \in IfArgs :
        /\ Write("if", IfText(IfParams(call), IfBranches(IfParams(call)), text))
        /\ tb_arg' = NoArg
        /\ tb_call' = call
        /\ tb_ran' = IfBranches(IfParams(call))
        /\ tb_trim' = BranchTrims(IfParams(call), IfBranches(IfParams(call)))
        /\ TextBuilderFrame

TextTrimLines ==
    /\ Write("trimLines", trimLines(text))
    /\ tb_arg' = NoArg /\ tb_call' = NoIf /\ tb_ran' = <<>> /\ tb_trim' = TRUE
    /\ TextBuilderFrame

\* done() that hands the string over and starts afresh
TextDoneFlushes ==
    /\ tb_op' = "done"
    /\ tb_ret' = [NoRead EXCEPT !.kind = "string", !.str = text]
    /\ tb_prev' = text
    /\ text' = <<>>
    /\ tb_since' = "same"
    /\ tb_twice' = FALSE
    /\ tb_arg' = NoArg /\ tb_call' = NoIf /\ tb_ran' = <<>> /\ tb_trim' = FALSE
    /\ TextBuilderFrame

TextDone ==
    /\ Read("done", [NoRead EXCEPT !.kind = "string", !.str = text])
    /\ tb_arg' = NoArg /\ tb_call' = NoIf /\ tb_ran' = <<>> /\ tb_trim' = FALSE
    /\ TextBuilderFrame

TextToString ==
    /\ Read("toString", [NoRead EXCEPT !.kind = "string", !.str = text])
    /\ tb_arg' = NoArg /\ tb_call' = NoIf /\ tb_ran' = <<>> /\ tb_trim' = FALSE
    /\ TextBuilderFrame

TextLines ==
    /\ Read("lines", [NoRead EXCEPT !.kind = "list", !.list = lines(text)])
    /\ tb_arg' = NoArg /\ tb_call' = NoIf /\ tb_ran' = <<>> /\ tb_trim' = FALSE
    /\ TextBuilderFrame

TextIsEmpty ==
    /\ Read("isEmpty", [NoRead EXCEPT !.kind = "boolean", !.bool = isEmpty(text)])
    /\ tb_arg' = NoArg /\ tb_call' = NoIf /\ tb_ran' = <<>> /\ tb_trim' = FALSE
    /\ TextBuilderFrame

TextLength ==
    /\ Read("length", [NoRead EXCEPT !.kind = "number", !.num = length(text)])
    /\ tb_arg' = NoArg /\ tb_call' = NoIf /\ tb_ran' = <<>> /\ tb_trim' = FALSE
    /\ TextBuilderFrame

TextBuilderNext ==
    \/ TextAdd \/ TextSpace \/ TextNewLine \/ TextLine \/ TextIf \/ TextTrimLines
    \/ TextDone \/ TextToString \/ TextLines \/ TextIsEmpty \/ TextLength

\* C12: add, space, newLine, line and an if() whose branch does not run
\* trimLines only append: the buffer before the call is a prefix of the buffer
\* after it.  A call that leaves a buffer the old one is no prefix of ran
\* trimLines.  The reads lines, isEmpty, length, done and toString leave the
\* buffer as it is.
C12_AppendOnly ==
    [][LET IsPrefix(p, str) == Len(p) <= Len(str) /\ SubSeq(str, 1, Len(p)) = p
       IN /\ (tb_op' \in {"add", "space", "newLine", "line"}
               \/ (tb_op' = "if" /\ ~tb_trim')) => IsPrefix(text, text')
          /\ ~IsPrefix(text, text') => tb_trim'
          /\ tb_op' \in {"lines", "isEmpty", "length", "done", "toString"} =>
                 text' = text]_vars

\* An if() whose callback made two appending calls extended a buffer that was
\* not empty.
C12_Witness ==
    /\ tb_op = "if" /\ ~tb_trim /\ tb_prev # <<>>
    /\ Len(text) = Len(tb_prev) + 2 /\ SubSeq(text, 1, Len(tb_prev)) = tb_prev

\* C16: an if() call leaves the buffer that the call of the other form with
\* the same condition, then and else leaves on the same buffer.
C16_FormsAgree ==
    tb_op = "if" =>
        LET other == IF tb_call.isObject
                     THEN Positional(tb_call.o_condition, tb_call.o_then, tb_call.o_else)
                     ELSE Object(tb_call.condition, tb_call.then, tb_call.otherwise)
        IN text = IfText(IfParams(other), IfBranches(IfParams(other)), tb_prev)

\* An object-form if() with a false condition ran its else callback, which
\* changed the buffer.
C16_Witness ==
    /\ tb_op = "if" /\ tb_call.isObject /\ ~tb_call.o_condition
    /\ tb_call.o_else.kind = "function" /\ text # tb_prev

\* C17: if() applies at most one branch.  A true condition applies then only;
\* a false one applies else only, if else is given, and otherwise nothing.  A
\* string branch is appended as it is, and a callback branch makes its calls
\* on the builder itself.
C17_OneBranch ==
    tb_op = "if" =>
        LET cond == IF tb_call.isObject THEN tb_call.o_condition ELSE tb_call.condition
            onThen == IF tb_call.isObject THEN tb_call.o_then ELSE tb_call.then
            onElse == IF tb_call.isObject THEN tb_call.o_else ELSE tb_call.otherwise
            after(branch) == IF branch.kind = "function"
                             THEN Run(branch.calls, tb_prev)
                             ELSE tb_prev \o branch.str
        IN /\ cond => (tb_ran = <<"then">> /\ text = after(onThen))
           /\ (~cond /\ onElse # UndefinedBranch) =>
                  (tb_ran = <<"else">> /\ text = after(onElse))
           /\ (~cond /\ onElse = UndefinedBranch) =>
                  (tb_ran = <<>> /\ text = tb_prev)

\* A positional if() with a true condition was given two branches that both
\* append, and appended the then string only.
C17_Witness ==
    /\ tb_op = "if" /\ ~tb_call.isObject /\ tb_call.condition
    /\ tb_call.then = StringBranch(<<"a">>)
    /\ tb_call.otherwise = StringBranch(<<" ", "a">>)
    /\ text = tb_prev \o <<"a">>

\* C18: trimLines keeps the number of lines, empty lines included, makes
\* line i the trim of the former line i, and leaves these lines joined by line
\* feeds in the buffer.
C18_TrimLines ==
    tb_op = "trimLines" =>
        /\ Len(lines(text)) = Len(lines(tb_prev))
        /\ \A i \in 1..Len(lines(tb_prev)) : lines(text)[i] = Trim(lines(tb_prev)[i])
        /\ text = Join([i \in 1..Len(lines(tb_prev)) |-> Trim(lines(tb_prev)[i])])

\* trimLines changed a buffer of several lines, one of them empty.
C18_Witness ==
    /\ tb_op = "trimLines" /\ text # tb_prev /\ Len(lines(tb_prev)) > 2
    /\ \E i \in 1..Len(lines(tb_prev)) : lines(tb_prev)[i] = <<>>

\* C24: done() and toString() return the buffer as it is and leave it as it
\* is, so both return the same string however often they are called; the
\* calls made after them act on the buffer as they always do (space and
\* trimLines are shown here, the others by C25 and C17), and a later done() or
\* toString() returns the buffer those calls left.
C24_DoneDoesNotFreeze ==
    [][/\ tb_op' \in {"done", "toString"} =>
              (tb_ret'.kind = "string" /\ tb_ret'.str = text /\ text' = text)
       /\ (tb_op \in {"done", "toString"} /\ tb_op' \in {"done", "toString"}) =>
              tb_ret'.str = tb_ret.str
       /\ (tb_since # "never" /\ tb_op' = "space") => text' = text \o <<" ">>
       /\ (tb_since # "never" /\ tb_op' = "add") => text' = text \o tb_arg'.str
       /\ (tb_since # "never" /\ tb_op' = "trimLines") =>
              text' = Join([i \in 1..Len(Split(text)) |-> Trim(Split(text)[i])])]_vars

\* A done() returned a buffer that calls made after an earlier done() or
\* toString() had changed.
C24_Witness ==
    /\ tb_op = "done" /\ tb_since = "reflected"
    /\ tb_ret.str = text /\ text # <<>>

\* C25: each add(t), space(), newLine(c) and line(t) appends its piece to the
\* buffer, which starts empty: t, one space, c line feeds (one when c is
\* omitted), and t followed by one line feed, which is what add(t) followed by
\* newLine(1) appends.
C25_BufferContent ==
    [][LET feeds(c) == [i \in 1..c |-> LF]
       IN /\ tb_op = "new" => text = <<>>
          /\ tb_op' = "add" => text' = text \o tb_arg'.str
          /\ tb_op' = "space" => text' = text \o <<" ">>
          /\ (tb_op' = "newLine" /\ tb_arg'.count.given) =>
                 text' = text \o feeds(tb_arg'.count.n)
          /\ (tb_op' = "newLine" /\ ~tb_arg'.count.given) => text' = text \o <<LF>>
          /\ tb_op' = "line" =>
                 (/\ text' = text \o tb_arg'.str \o <<LF>>
                  /\ text' = newLine(add(text, tb_arg'.str), 1))]_vars

\* line(t) with a t of two characters extended a buffer that was not empty.
C25_Witness ==
    /\ tb_op = "line" /\ tb_prev # <<>> /\ Len(tb_arg.str) = 2
    /\ text = tb_prev \o tb_arg.str \o <<LF>>

\* C27: isEmpty is true exactly when every character of the buffer is a white
\* space (none, for the buffer of a fresh builder).
C27_IsEmpty ==
    /\ tb_op = "isEmpty" =>
           (tb_ret.bool <=> \A i \in 1..Len(text) : text[i] \in {" ", LF})
    /\ (tb_op = "isEmpty" /\ tb_prev = <<>> /\ text = <<>>) => tb_ret.bool

\* isEmpty was true of a buffer holding a space and a line feed.
C27_Witness ==
    /\ tb_op = "isEmpty" /\ tb_ret.bool
    /\ \E i, j \in 1..Len(text) : text[i] = " " /\ text[j] = LF

\* C32: a trimLines call that directly follows a trimLines call leaves the
\* buffer as it found it, and after any trimLines call no line of the buffer
\* starts or ends with a white space.
C32_TrimLinesIdempotent ==
    [][/\ (tb_op = "trimLines" /\ tb_op' = "trimLines") => text' = text
       /\ tb_op' = "trimLines" =>
              \A i \in 1..Len(lines(text')) :
                  LET l == lines(text')[i]
                  IN  l # <<>> => (Head(l) \notin WhiteSpace
                                   /\ l[Len(l)] \notin WhiteSpace)]_vars

\* The second of two trimLines calls in a row left alone a buffer of several
\* lines that the first call had changed.
C32_Witness ==
    /\ tb_op = "trimLines" /\ tb_twice /\ text = tb_prev
    /\ Len(lines(text)) >= 2 /\ text # <<LF>>
    /\ \E i \in 1..Len(text) : text[i] = "a"

(***************************************************************************)
(* Array extensions: chunk and groupBy (src/utils/array-utils.ts)          *)
(***************************************************************************)
MaxArr == 3
MaxChunks == 5

\* The arrays tried: up to MaxArr of two items.
Arrays == UNION {[1..n -> {"x", "y"}] : n \in 0..MaxArr}

\* Array.prototype.slice's reading of an index: a negative one counts from the
\* end, and both are clamped to the array.
RelativeIndex(k, len) ==
    IF k < 0 THEN (IF len + k < 0 THEN 0 ELSE len + k)
    ELSE (IF k > len THEN len ELSE k)

sliceToEnd(a, start, end) ==
    SubSeq(a, RelativeIndex(start, Len(a)) + 1, Len(a))

\* this.slice(i, i + size), on 0-based indices.
slice(a, start, end) ==
    LET from == RelativeIndex(start, Len(a))
        to == RelativeIndex(end, Len(a))
    IN  IF to <= from THEN <<>> ELSE SubSeq(a, from + 1, to)

\* The size arguments tried: negative, zero, and up to one more than the
\* longest array.
ChunkSizes == -1 .. (MaxArr + 1)

\* What {} inherits from Object.prototype.
InheritedNames == ObjectPrototypeNames \cup {"toString", "valueOf"}

GroupKeys == {"k1", "k2", "constructor"}
GroupProps == GroupKeys \cup {"k3", "toString"}

\* groupBy's loop from index i on, with the groups built so far:
\* (groups[key] ??= []).push(this[i]). An inherited member is not nullish, so
\* it is not replaced by [], and it has no push.
RECURSIVE groupByFrom(_, _, _, _)
groupByFrom(this, keys, i, target) ==
    IF ~(i < Len(this)) THEN [thrown |-> FALSE, target |-> target]
    ELSE LET key == keys[i + 1]
         IN  IF key \in DOMAIN target
             THEN groupByFrom(this, keys, i + 1,
                              [target EXCEPT ![key] = Append(@, this[i + 1])])
             ELSE IF key \in InheritedNames
             THEN [thrown |-> TRUE, target |-> target]
             ELSE groupByFrom(this, keys, i + 1,
                              target @@ (key :> <<this[i + 1]>>))

groupBy(this, keys) == groupByFrom(this, keys, 0, <<>>)

\* The proxy's get handler: prop in target ? target[prop] : [].
List(l) == [kind |-> "list", list |-> l]
NoValue == [kind |-> "none", list |-> <<>>]
GroupsGet(target, prop) ==
    IF prop \in DOMAIN target THEN List(target[prop])
    ELSE IF prop \in InheritedNames THEN [kind |-> "inherited", list |-> <<>>]
    ELSE List(<<>>)

NoGroups == [thrown |-> FALSE, target |-> <<>>]

\* new Set(other) is the set of other's elements and setOther.has(item) is
\* membership: values are compared by SameValueZero, which is equality on the
\* items modelled.

\* An intersect that also drops the repetitions of an element of this
intersectUnique(this, other) ==
    LET kept == SelectSeq(this, LAMBDA item : \E i \in 1..Len(other) : other[i] = item)
        first(p) == \A q \in 1..(p - 1) : kept[q] # kept[p]
        RECURSIVE From(_)
        From(p) == IF p > Len(kept) THEN <<>>
                   ELSE (IF first(p) THEN <<kept[p]>> ELSE <<>>) \o From(p + 1)
    IN  From(1)

\* this.filter((item) => setOther.has(item))
intersect(this, other) ==
    LET setOther == {other[i] : i \in 1..Len(other)}
    IN  SelectSeq(this, LAMBDA item : item \in setOther)

\* this.filter((item) => !setOther.has(item))
difference(this, other) ==
    LET setOther == {other[i] : i \in 1..Len(other)}
    IN  SelectSeq(this, LAMBDA item : ~(item \in setOther))

ArrayInit ==
    /\ a_this = <<>>
    /\ a_op = "none"
    /\ a_size = 1
    /\ a_i = 0
    /\ chunks = <<>>
    /\ a_keys = <<>>
    /\ groups = NoGroups
    /\ a_prop = "k1"
    /\ a_ret = NoValue
    /\ a_other = <<>>
    /\ a_diff = NoValue

InLoop == a_op \in {"chunk", "iterate"}

\* this.chunk(size) up to the loop: const chunks = []; let i = 0. What an
\* earlier groupBy call left is dropped.
Chunk ==
    \E this \in Arrays, size \in ChunkSizes :
        /\ ~InLoop /\ a_op # "exhausted"
        /\ a_this' = this
        /\ a_size' = size
        /\ a_i' = 0
        /\ chunks' = <<>>
        /\ a_op' = "chunk"
        /\ a_ret' = NoValue
        /\ a_keys' = <<>> /\ groups' = NoGroups /\ a_prop' = "k1"
        /\ a_other' = <<>> /\ a_diff' = NoValue
        /\ ArrayFrame

\* One iteration of the loop: the test i < this.length held. The host has
\* room for MaxChunks chunks; a push beyond that ends the program.
ChunkIterate ==
    /\ InLoop
    /\ a_i < Len(a_this)
    /\ IF Len(chunks) >= MaxChunks
       THEN /\ a_op' = "exhausted"
            /\ UNCHANGED <<a_i, chunks>>
       ELSE /\ chunks' = Append(chunks, slice(a_this, a_i, a_i + a_size))
            /\ a_i' = a_i + a_size
            /\ a_op' = "iterate"
    /\ UNCHANGED <<a_this, a_size, a_keys, groups, a_prop, a_ret, a_other, a_diff>>
    /\ ArrayFrame

\* The test i < this.length failed: return chunks.
ChunkReturn ==
    /\ InLoop
    /\ ~(a_i < Len(a_this))
    /\ a_ret' = List(chunks)
    /\ a_op' = "chunk-return"
    /\ UNCHANGED <<a_this, a_size, a_i, chunks, a_keys, groups, a_prop, a_other,
                   a_diff>>
    /\ ArrayFrame

\* this.groupBy(keyFn), keyFn returning keys[i + 1] at index i. What an
\* earlier chunk call left is dropped.
GroupBy ==
    \E this \in Arrays :
        \E keys \in [1..Len(this) -> GroupKeys] :
            /\ ~InLoop /\ a_op # "exhausted"
            /\ a_this' = this
            /\ a_keys' = keys
            /\ groups' = groupBy(this, keys)
            /\ a_op' = "groupBy"
            /\ a_ret' = NoValue
            /\ a_size' = 1 /\ a_i' = 0 /\ chunks' = <<>> /\ a_prop' = "k1"
            /\ a_other' = <<>> /\ a_diff' = NoValue
            /\ ArrayFrame

\* Reading a property of the proxy groupBy returned.
GroupsRead ==
    \E prop \in GroupProps :
        /\ a_op \in {"groupBy", "get"}
        /\ ~groups.thrown
        /\ a_prop' = prop
        /\ a_ret' = GroupsGet(groups.target, prop)
        /\ a_op' = "get"
        /\ UNCHANGED <<a_this, a_size, a_i, chunks, a_keys, groups, a_other, a_diff>>
        /\ ArrayFrame

\* this.intersect(other). What an earlier call left is dropped.
Intersect ==
    \E this \in Arrays, other \in Arrays :
        /\ ~InLoop /\ a_op # "exhausted"
        /\ a_this' = this
        /\ a_other' = other
        /\ a_ret' = List(intersect(this, other))
        /\ a_diff' = NoValue
        /\ a_op' = "intersect"
        /\ a_size' = 1 /\ a_i' = 0 /\ chunks' = <<>>
        /\ a_keys' = <<>> /\ groups' = NoGroups /\ a_prop' = "k1"
        /\ ArrayFrame

\* this.difference(other), on the arrays of the intersect call before it.
Difference ==
    /\ a_op = "intersect"
    /\ a_diff' = List(difference(a_this, a_other))
    /\ a_op' = "difference"
    /\ UNCHANGED <<a_this, a_size, a_i, chunks, a_keys, groups, a_prop, a_ret, a_other>>
    /\ ArrayFrame

ArrayNext ==
    \/ Chunk \/ ChunkIterate \/ ChunkReturn
    \/ GroupBy \/ GroupsRead
    \/ Intersect \/ Difference

\* C23: chunk(n) with n >= 1 on an array of length L returns ceil(L/n) chunks,
\* the last of length at most n and the others of length exactly n, and the
\* chunks joined in order are the array.
C23_Chunk ==
    LET n == a_size
        L == Len(a_this)
        RECURSIVE Flat(_)
        Flat(ll) == IF ll = <<>> THEN <<>> ELSE Head(ll) \o Flat(Tail(ll))
    IN  (a_op = "chunk-return" /\ n >= 1) =>
            /\ a_ret.kind = "list"
            /\ Len(a_ret.list) = (L + n - 1) \div n
            /\ \A k \in 1..Len(a_ret.list) :
                   /\ Len(a_ret.list[k]) <= n
                   /\ Len(a_ret.list[k]) >= 1
                   /\ k < Len(a_ret.list) => Len(a_ret.list[k]) = n
            /\ Flat(a_ret.list) = a_this

\* chunk(2) on an array of three returned a chunk of two and a chunk of one.
C23_Witness ==
    /\ a_op = "chunk-return" /\ a_size = 2 /\ Len(a_this) = 3
    /\ a_ret.list = <<SubSeq(a_this, 1, 2), SubSeq(a_this, 3, 3)>>

\* C28: the object groupBy returns has one group for each key keyFn produced,
\* holding the elements with that key in the order of the input, and reading
\* a key that keyFn never produced gives an empty list.
C28_GroupBy ==
    LET Produced == {a_keys[i] : i \in 1..Len(a_keys)}
        RECURSIVE Members(_, _)
        Members(key, i) ==
            IF i > Len(a_this) THEN <<>>
            ELSE (IF a_keys[i] = key THEN <<a_this[i]>> ELSE <<>>)
                     \o Members(key, i + 1)
    IN  /\ a_op \in {"groupBy", "get"} =>
               /\ ~groups.thrown
               /\ DOMAIN groups.target = Produced
               /\ \A key \in Produced : groups.target[key] = Members(key, 1)
        /\ (a_op = "get" /\ a_prop \notin Produced) => a_ret = List(<<>>)

\* C30: a chunk call on an array that is not empty ends: its loop does not go
\* on until the room for chunks is used up.
C30_ChunkTerminates ==
    Len(a_this) > 0 => a_op # "exhausted"

\* C33: A.intersect(B) and A.difference(B) split A: some marking of the
\* positions of A makes the first the elements at the marked positions and the
\* second the elements at the others, both in the order of A; and every B'
\* with the elements of B, in any order and any number of times, gives the
\* same two results.
C33_Split ==
    LET A == a_this
        At(keep) ==
            LET RECURSIVE From(_)
                From(p) == IF p > Len(A) THEN <<>>
                           ELSE (IF keep[p] THEN <<A[p]>> ELSE <<>>) \o From(p + 1)
            IN  From(1)
    IN  a_op = "difference" =>
            /\ \E keep \in [1..Len(A) -> BOOLEAN] :
                   /\ a_ret = List(At(keep))
                   /\ a_diff = List(At([p \in 1..Len(A) |-> ~keep[p]]))
            /\ \A B \in Arrays :
                   {B[i] : i \in 1..Len(B)} = {a_other[i] : i \in 1..Len(a_other)} =>
                       /\ intersect(A, B) = a_ret.list
                       /\ difference(A, B) = a_diff.list

\* An A with a repeated element was split in two non-empty parts by a B that
\* repeats an element.
C33_Witness ==
    /\ a_op = "difference" /\ Len(a_this) = 3 /\ Len(a_other) = 2
    /\ a_this[1] = a_this[3] /\ a_this[1] # a_this[2]
    /\ a_other[1] = a_other[2]
    /\ Len(a_ret.list) = 2 /\ Len(a_diff.list) = 1

(***************************************************************************)
(* Specifications                                                          *)
(***************************************************************************)
AllInit ==
    SwitcherInit /\ DurationInit /\ HooksInit /\ TextBuilderInit /\ ArrayInit

\* A switcher under test; the other components are not exercised.
InitSwitcher ==
    \E h \in {"useTimeout"} : AllInit /\ hook = h

\* The duration function under test.
InitDuration ==
    \E v \in {"a"}, k \in {"strict"}, h \in {"useTimeout"} :
        AllInit /\ value = v /\ equalityCheck = k /\ hook = h

\* A component that mounted one of the two hooks.
InitHooks ==
    \E v \in {"a"}, k \in {"strict"} :
        AllInit /\ value = v /\ equalityCheck = k

\* A builder returned by text().
InitTextBuilder ==
    \E v \in {"a"}, k \in {"strict"}, h \in {"useTimeout"} :
        AllInit /\ value = v /\ equalityCheck = k /\ hook = h

\* An array with the extensions installed.
InitArray ==
    \E v \in {"a"}, k \in {"strict"}, h \in {"useTimeout"} :
        AllInit /\ value = v /\ equalityCheck = k /\ hook = h

SpecSwitcher == InitSwitcher /\ [][SwitcherNext]_vars

SpecDuration == InitDuration /\ [][DurationNext]_vars

SpecHooks == InitHooks /\ [][HooksNext]_vars

SpecTextBuilder == InitTextBuilder /\ [][TextBuilderNext]_vars

SpecArray == InitArray /\ [][ArrayNext]_vars

====
